---------------------------- MODULE Spec2Model ----------------------------
(***************************************************************************)
(* Model of scripts/historical_parser.py (class HistoricalParser).         *)
(*                                                                         *)
(* Strings are modelled by what the program observes of them:              *)
(*   - free text (message content, titles, transcript, preview) by its     *)
(*     length, plus a flag telling whether the code appended a marker;     *)
(*   - a date string by a natural number whose order is the string order   *)
(*     of the ISO texts: 0 is the empty string, DateStr(d) is the text     *)
(*     "YYYY-MM-DD" of day d, RawStr(d, t) is the un-split text            *)
(*     "YYYY-MM-DD HH:MM" (it has "YYYY-MM-DD" as a proper prefix, so it   *)
(*     sorts after it and before the next day).                            *)
(* Sizes are byte counts: len(str(conv)) / (1024*1024) and the sums of     *)
(* such quotients are exact in binary floating point, so the comparison    *)
(* of line 180 is the integer comparison in bytes.                         *)
(***************************************************************************)
EXTENDS Integers, Sequences, FiniteSets, TLC

VARIABLES
    pc,                      \* position of the running call
    projects_file,           \* state of data/historical_export/projects.json
    conversations_file,      \* state of data/historical_export/conversations.json
    source,                  \* the elements ijson.items yields, in order
    mapping_written,         \* config/project_mapping.json was written
    cutoff_date,             \* parse_conversations_file: cutoff_date
    i,                       \* parse_conversations_file: loop position (1-based)
    filtered_conversations,  \* parse_conversations_file: accumulator
    conversations,           \* run: conversations / create_csv_chunks: argument
    arg,                     \* the list as it was handed to create_csv_chunks
    max_size_mb,             \* create_csv_chunks: budget
    chunks, current_chunk, current_size, start_date,
    k,                       \* create_csv_chunks: position of the scan loop
    w,                       \* create_csv_chunks: position of the save loop
    files,                   \* output_dir: file name -> rows
    log,                     \* the log lines, <<level, message>>
    raw, result              \* process_single_conversation: argument, result

vars == <<pc, projects_file, conversations_file, source, mapping_written,
          cutoff_date, i, filtered_conversations, conversations, arg,
          max_size_mb, chunks, current_chunk, current_size, start_date,
          k, w, files, log, raw, result>>

-----------------------------------------------------------------------------
(* Bounds of the model *)
MaxSrc   == 2      \* elements in conversations.json
MaxConvs == 3      \* records handed directly to create_csv_chunks
MaxMsgs  == 4      \* messages of a conversation handed to the extractor
MaxDay   == 2      \* calendar days 1..MaxDay
MaxTod   == 1      \* times of day 0..MaxTod (a day has MaxTod+1 ticks)

(* Program constants *)
MBytes          == 1048576   \* 1024 * 1024
DefaultMaxSizeMb == 18
TextCap         == 10000
PreviewCap      == 500
MarkerLen       == 14        \* len("...[TRUNCATED]")
EllipsisLen     == 3         \* len("...")
UserHeaderLen   == 15        \* len("USER MESSAGES:\n")
ClaudeHeaderLen == 20        \* len("\n\nCLAUDE RESPONSES:\n")
SeparatorLen    == 5         \* len("\n---\n")
FirstN          == 3         \* user_messages[:3], claude_responses[:3]
ProgressEvery   == 100
UntitledLen     == 8         \* len("Untitled")
ReprOverhead    == 208       \* len(str(conv)) of a record with empty texts

None    == -1                \* Python None where a date string is expected
NoneRec == [isNone |-> TRUE] \* Python None where a record is expected

Min(a, b) == IF a < b THEN a ELSE b

SeqsUpTo(S, n) == UNION {[1..m -> S] : m \in 0..n}

RECURSIVE SumLen(_)
SumLen(s) == IF s = <<>> THEN 0 ELSE Head(s) + SumLen(Tail(s))

-----------------------------------------------------------------------------
(* Date strings *)
DateScale     == MaxTod + 2
EmptyStr      == 0
DateStr(d)    == d * DateScale
RawStr(d, t)  == d * DateScale + 1 + t
GarbageStr    == (MaxDay + 1) * DateScale     \* "not-a-date"
DayOf(date)   == date \div DateScale

(* created_at values of a raw record *)
NoCreatedAt  == [form |-> "absent",  day |-> 0, tod |-> 0, off |-> 0, sep |-> " "]
BadCreatedAt == [form |-> "garbage", day |-> 0, tod |-> 0, off |-> 0, sep |-> " "]
NumCreatedAt == [form |-> "number",  day |-> 0, tod |-> 0, off |-> 0, sep |-> " "]
Iso(d, t, o, s) == [form |-> "iso", day |-> d, tod |-> t, off |-> o, sep |-> s]

\* `not created_at` (line 82)
Falsy(created_at) == created_at.form = "absent"

\* datetime.fromisoformat(created_at.replace('Z', '+00:00')) raises (lines 85-89)
ParseFails(created_at) == created_at.form # "iso"

\* lines 86-87: the zone is dropped, the wall-clock reading is kept
StripZoneUTC(created_at) ==
    LET t == created_at.day * (MaxTod + 1) + created_at.tod - created_at.off
    IN  [day |-> t \div (MaxTod + 1), tod |-> t % (MaxTod + 1)]
conv_date(created_at) == [day |-> created_at.day, tod |-> created_at.tod]

\* conv_date >= cutoff_date (line 92)
NotBefore(a, b) == a.day > b.day \/ (a.day = b.day /\ a.tod >= b.tod)

\* created_at.split('T')[0] if 'T' in created_at else created_at (line 144)
NormalizedDate(created_at) ==
    CASE created_at.form = "absent"  -> EmptyStr
      [] created_at.form = "garbage" -> GarbageStr
      [] created_at.form = "iso" /\ created_at.sep = "T" -> DateStr(created_at.day)
      [] OTHER -> RawStr(created_at.day, created_at.tod)

-----------------------------------------------------------------------------
(* process_single_conversation *)

Senders == {"human", "assistant", "system"}
Msg(s, n) == [form |-> "dict", sender |-> s, text |-> n]
BadMessage == [form |-> "bad", sender |-> "", text |-> 0]  \* not an object, or text null

Texts(msgs, s) ==
    LET sel == SelectSeq(msgs, LAMBDA m : m.sender = s)
    IN  [j \in 1..Len(sel) |-> sel[j].text]

FirstOf(s) == SubSeq(s, 1, Min(Len(s), FirstN))

\* len(sep.join(parts))
JoinLen(parts) ==
    IF parts = <<>> THEN 0 ELSE SumLen(parts) + SeparatorLen * (Len(parts) - 1)

\* lines 135-136
CompositeLen(msgs) ==
    UserHeaderLen + JoinLen(FirstOf(Texts(msgs, "human")))
    + ClaudeHeaderLen + JoinLen(FirstOf(Texts(msgs, "assistant")))

TruncateAtOrOver(n) ==
    IF n >= TextCap THEN [len |-> TextCap + MarkerLen, truncated |-> TRUE]
                    ELSE [len |-> n, truncated |-> FALSE]
\* lines 139-140
Truncate(n) ==
    IF n > TextCap THEN [len |-> TextCap + MarkerLen, truncated |-> TRUE]
                   ELSE [len |-> n, truncated |-> FALSE]

\* line 150: replace keeps the length, [:500] cuts, "..." is always appended
Preview(text) == [len |-> Min(text.len, PreviewCap) + EllipsisLen, ellipsis |-> TRUE]

\* conversation.get('uuid', 'unknown'); the id 0 stands for 'unknown'
ConvId(conversation) ==
    IF conversation.uuid = None THEN 0 ELSE conversation.uuid

\* conversation.get('name', 'Untitled'), as a length
Name(conversation) ==
    IF conversation.name = None THEN UntitledLen ELSE conversation.name

\* conversation.get('chat_messages', [])
ChatMessages(conversation) ==
    IF conversation.chat_messages.form = "absent" THEN <<>>
    ELSE conversation.chat_messages.items

\* `not chat_messages` (line 115)
NoMessages(conversation) ==
    conversation.chat_messages.form # "notlist" /\ ChatMessages(conversation) = <<>>

\* some statement of the try block raises (caught at line 154)
ExtractionRaises(conversation) ==
    \/ conversation.chat_messages.form = "notlist"
    \/ \E j \in 1..Len(ChatMessages(conversation)) :
          ChatMessages(conversation)[j].form = "bad"
    \/ conversation.created_at.form = "number"

process_single_conversation(conversation) ==
    LET msgs == ChatMessages(conversation)
        text == Truncate(CompositeLen(msgs))
    IN  IF NoMessages(conversation) THEN NoneRec
        ELSE IF ExtractionRaises(conversation) THEN NoneRec
        ELSE [conversation_id       |-> ConvId(conversation),
              date                  |-> NormalizedDate(conversation.created_at),
              title                 |-> Name(conversation),
              message_count         |-> Len(msgs),
              user_message_count    |-> Len(Texts(msgs, "human")),
              claude_response_count |-> Len(Texts(msgs, "assistant")),
              total_characters      |-> SumLen([j \in 1..Len(msgs) |-> msgs[j].text]),
              conversation_preview  |-> Preview(text),
              conversation_text     |-> text]

-----------------------------------------------------------------------------
(* Inputs *)

NoChat      == [form |-> "absent",  items |-> <<>>]
NotAList    == [form |-> "notlist", items |-> <<>>]
Chat(items) == [form |-> "list",    items |-> items]

NonObject == [kind |-> "scalar", uuid |-> None, name |-> None,
              created_at |-> NoCreatedAt, chat_messages |-> NoChat]
Dict(ca, cm) == [kind |-> "dict", uuid |-> None, name |-> None,
                 created_at |-> ca, chat_messages |-> cm]

Offsets == {0, -1}     \* zone offsets, in ticks: "Z" / "+00:00" and "-01:00"

Timestamps ==
    {Iso(d, t, 0, "T") : d \in 1..MaxDay, t \in 0..MaxTod}
    \cup {Iso(d, MaxTod, -1, "T") : d \in {1}}
    \cup {Iso(d, MaxTod, 0, " ") : d \in {MaxDay}}

OneMessage == Chat(<<Msg("human", 0)>>)

\* what conversations.json may hold at one position
RawElements ==
    {NonObject}
    \cup {Dict(ca, OneMessage) :
            ca \in {NoCreatedAt, BadCreatedAt, NumCreatedAt} \cup Timestamps}
    \cup {Dict(Iso(MaxDay, MaxTod, 0, "T"), cm) :
            cm \in {NoChat, NotAList, Chat(<<BadMessage>>)}}

WithIds(s) == [j \in 1..Len(s) |-> [s[j] EXCEPT !.uuid = j]]

Sources == {WithIds(s) : s \in SeqsUpTo(RawElements, MaxSrc)}

\* datetime.now() - timedelta(days=days_back)
Cutoffs == {[day |-> MaxDay, tod |-> t] : t \in 0..MaxTod}

-----------------------------------------------------------------------------
(* Logging and the pieces of state a call starts from *)

Logged(level, msg) == Append(log, <<level, msg>>)

Log2(l1, m1, l2, m2) == Append(Append(log, <<l1, m1>>), <<l2, m2>>)

HasLog(level, msg) == \E j \in 1..Len(log) : log[j] = <<level, msg>>

EmptyFiles == [n \in {} |-> <<>>]

Last(s) == s[Len(s)]

IdleParse ==
    /\ cutoff_date = [day |-> 0, tod |-> 0]
    /\ i = 0
    /\ filtered_conversations = <<>>

IdleChunks ==
    /\ chunks = <<>>
    /\ current_chunk = <<>>
    /\ current_size = 0
    /\ start_date = None
    /\ k = 0
    /\ w = 0
    /\ files = EmptyFiles

parseVars == <<cutoff_date, i, filtered_conversations>>
chunkVars == <<arg, max_size_mb, chunks, current_chunk, current_size,
               start_date, k, w, files>>
envVars   == <<projects_file, conversations_file, source>>
unitVars  == <<raw, result>>

-----------------------------------------------------------------------------
(* run, load_projects_info, parse_conversations_file *)

Init ==
    /\ pc = "run"
    /\ projects_file \in {"missing", "corrupt", "ok"}
    /\ conversations_file \in {"missing", "unreadable", "ok"}
    /\ source \in Sources
    /\ conversations_file # "ok" => source = <<>>
    /\ mapping_written = FALSE
    /\ IdleParse
    /\ conversations = <<>>
    /\ arg = <<>>
    /\ max_size_mb = DefaultMaxSizeMb
    /\ IdleChunks
    /\ log = <<>>
    /\ raw = NonObject
    /\ result = NoneRec

\* run, line 250
Run ==
    /\ pc = "run"
    /\ log' = Logged("info", "Starting")
    /\ pc' = "load_projects_info"
    /\ UNCHANGED <<envVars, mapping_written, parseVars, conversations,
                   chunkVars, unitVars>>

\* load_projects_info, called at line 253; its result is not used by run
LoadProjectsInfo ==
    /\ pc = "load_projects_info"
    /\ CASE projects_file = "missing" ->
              /\ log' = Logged("warning", "Projects file not found")
              /\ mapping_written' = mapping_written
         [] projects_file = "corrupt" ->
              /\ log' = Logged("error", "Error loading projects file")
              /\ mapping_written' = mapping_written
         [] OTHER ->
              /\ log' = Logged("info", "Loaded projects data")
              /\ mapping_written' = TRUE
    /\ pc' = "parse_conversations_file"
    /\ UNCHANGED <<envVars, parseVars, conversations, chunkVars, unitVars>>

\* parse_conversations_file, lines 59-74: up to the first iteration
ParseOpen ==
    /\ pc = "parse_conversations_file"
    /\ IF conversations_file = "missing"
       THEN /\ log' = Logged("error", "Conversations file not found")
            /\ conversations' = <<>>
            /\ pc' = "run_check"
            /\ UNCHANGED parseVars
       ELSE \E c \in Cutoffs :
            /\ cutoff_date' = c
            /\ filtered_conversations' = <<>>
            /\ IF conversations_file = "unreadable"
               THEN /\ log' = Append(Log2("info", "Filtering conversations since",
                                          "info", "Processing conversations file"),
                                     <<"error", "Error parsing conversations file">>)
                    /\ conversations' = <<>>
                    /\ pc' = "run_check"
                    /\ i' = i
               ELSE /\ log' = Log2("info", "Filtering conversations since",
                                   "info", "Processing conversations file")
                    /\ conversations' = conversations
                    /\ pc' = "parse_loop"
                    /\ i' = 1
    /\ UNCHANGED <<envVars, mapping_written, chunkVars, unitVars>>

\* the log after the progress line of lines 77-78 (enumerate counts from 0)
Progress ==
    IF (i - 1) % ProgressEvery = 0 THEN Logged("info", "Processed") ELSE log

\* parse_conversations_file, lines 76-99: one iteration of the loop
ParseStep ==
    /\ pc = "parse_loop"
    /\ i <= Len(source)
    /\ LET conversation == source[i]
           created_at   == conversation.created_at
       IN  IF conversation.kind # "dict"
           THEN \* conversation.get raises outside the inner try: line 97
                /\ log' = Append(Progress, <<"error", "Error parsing conversations file">>)
                /\ conversations' = <<>>
                /\ pc' = "run_check"
                /\ UNCHANGED parseVars
           ELSE /\ pc' = pc
                /\ i' = i + 1
                /\ conversations' = conversations
                /\ cutoff_date' = cutoff_date
                /\ IF Falsy(created_at) \/ ParseFails(created_at)
                   THEN /\ log' = Progress
                        /\ filtered_conversations' = filtered_conversations
                   ELSE IF NotBefore(conv_date(created_at), cutoff_date)
                   THEN LET processed_conv == process_single_conversation(conversation)
                        IN  /\ log' = IF ~NoMessages(conversation)
                                         /\ ExtractionRaises(conversation)
                                      THEN Append(Progress,
                                             <<"warning", "Error processing conversation">>)
                                      ELSE Progress
                            /\ filtered_conversations' =
                                  IF processed_conv # NoneRec
                                  THEN Append(filtered_conversations, processed_conv)
                                  ELSE filtered_conversations
                   ELSE /\ log' = Progress
                        /\ filtered_conversations' = filtered_conversations
    /\ UNCHANGED <<envVars, mapping_written, chunkVars, unitVars>>

\* parse_conversations_file, lines 101-102
ParseReturn ==
    /\ pc = "parse_loop"
    /\ i > Len(source)
    /\ log' = Logged("info", "Found conversations")
    /\ conversations' = filtered_conversations
    /\ pc' = "run_check"
    /\ UNCHANGED <<envVars, mapping_written, parseVars, chunkVars, unitVars>>

RunCheckAlwaysCalls ==
    /\ pc = "run_check"
    /\ log' = log
    /\ arg' = conversations
    /\ max_size_mb' = DefaultMaxSizeMb
    /\ pc' = "create_csv_chunks"
    /\ UNCHANGED <<envVars, mapping_written, parseVars, conversations,
                   chunks, current_chunk, current_size, start_date, k, w,
                   files, unitVars>>
\* run, lines 258-263
RunCheck ==
    /\ pc = "run_check"
    /\ IF conversations = <<>>
       THEN /\ log' = Logged("error", "No conversations found to process")
            /\ pc' = "done"
            /\ UNCHANGED <<arg, max_size_mb>>
       ELSE /\ log' = log
            /\ arg' = conversations
            /\ max_size_mb' = DefaultMaxSizeMb
            /\ pc' = "create_csv_chunks"
    /\ UNCHANGED <<envVars, mapping_written, parseVars, conversations,
                   chunks, current_chunk, current_size, start_date, k, w,
                   files, unitVars>>

\* run, lines 265-268
RunSummary ==
    /\ pc = "csv_returned"
    /\ log' = Logged("info", "Processing complete")
    /\ pc' = "done"
    /\ UNCHANGED <<envVars, mapping_written, parseVars, conversations,
                   chunkVars, unitVars>>


-----------------------------------------------------------------------------
(* create_csv_chunks *)

\* len(str(conv)), line 178, in bytes: the text of the dict with empty
\* strings (keys, quotes, a 10-character date, one-digit counts) plus the
\* lengths of the three texts of variable length
StrLen(conv) ==
    ReprOverhead + conv.title + conv.conversation_preview.len
    + conv.conversation_text.len

\* `not start_date` (line 174)
NotTruthy(d) == d = None \/ d = EmptyStr

RECURSIVE Insert(_, _)
\* puts x behind every element whose date is not later than x's
Insert(x, s) ==
    IF s = <<>> THEN <<x>>
    ELSE IF Head(s).date <= x.date THEN <<Head(s)>> \o Insert(x, Tail(s))
    ELSE <<x>> \o s

RECURSIVE InsertBeforeTies(_, _)
InsertBeforeTies(x, s) ==
    IF s = <<>> THEN <<x>>
    ELSE IF Head(s).date < x.date THEN <<Head(s)>> \o InsertBeforeTies(x, Tail(s))
    ELSE <<x>> \o s

RECURSIVE SortFrom(_, _)
SortFrom(s, acc) ==
    IF s = <<>> THEN acc ELSE SortFrom(Tail(s), Insert(Head(s), acc))

RECURSIVE SortFromUnstable(_, _)
SortFromUnstable(s, acc) ==
    IF s = <<>> THEN acc ELSE SortFromUnstable(Tail(s), InsertBeforeTies(Head(s), acc))

SortByDateUnstable(s) == SortFromUnstable(s, <<>>)
\* conversations.sort(key=lambda x: x['date']), line 165: a stable sort
SortByDate(s) == SortFrom(s, <<>>)

ExceedsWithoutAccumulator(size, conv_size, budget_mb, chunk) ==
    conv_size > budget_mb * MBytes /\ chunk # <<>>
ExceedsOrReaches(size, conv_size, budget_mb, chunk) ==
    size + conv_size >= budget_mb * MBytes /\ chunk # <<>>
\* current_size + conv_size > max_size_mb and current_chunk, line 180
Exceeds(size, conv_size, budget_mb, chunk) ==
    size + conv_size > budget_mb * MBytes /\ chunk # <<>>

\* the chunk appended at lines 183-187 and 200-204
ClosedChunk(data, start) ==
    [data |-> data, start_date |-> start, end_date |-> Last(data).date]

\* create_csv_chunks, lines 160-171
CreateCsvChunks ==
    /\ pc = "create_csv_chunks"
    /\ IF arg = <<>>
       THEN /\ log' = Logged("warning", "No conversations to process")
            /\ pc' = "csv_returned"
            /\ UNCHANGED <<conversations, chunks, current_chunk, current_size,
                           start_date, k>>
       ELSE /\ conversations' = SortByDate(arg)
            /\ chunks' = <<>>
            /\ current_chunk' = <<>>
            /\ current_size' = 0
            /\ start_date' = None
            /\ k' = 1
            /\ log' = log
            /\ pc' = "scan"
    /\ UNCHANGED <<envVars, mapping_written, parseVars, arg, max_size_mb, w,
                   files, unitVars>>

\* create_csv_chunks, lines 173-195: one iteration of the loop
ScanStep ==
    /\ pc = "scan"
    /\ k <= Len(conversations)
    /\ LET conv      == conversations[k]
           start     == IF NotTruthy(start_date) THEN conv.date ELSE start_date
           conv_size == StrLen(conv)
       IN  IF Exceeds(current_size, conv_size, max_size_mb, current_chunk)
           THEN /\ chunks' = Append(chunks, ClosedChunk(current_chunk, start))
                /\ current_chunk' = <<conv>>
                /\ current_size' = conv_size
                /\ start_date' = conv.date
           ELSE /\ chunks' = chunks
                /\ current_chunk' = Append(current_chunk, conv)
                /\ current_size' = current_size + conv_size
                /\ start_date' = start
    /\ k' = k + 1
    /\ UNCHANGED <<pc, envVars, mapping_written, parseVars, conversations, arg,
                   max_size_mb, w, files, log, unitVars>>

\* create_csv_chunks, lines 197-204
FinalChunk ==
    /\ pc = "scan"
    /\ k > Len(conversations)
    /\ chunks' = IF current_chunk # <<>>
                 THEN Append(chunks, ClosedChunk(current_chunk, start_date))
                 ELSE chunks
    /\ w' = 1
    /\ pc' = "save"
    /\ UNCHANGED <<envVars, mapping_written, parseVars, conversations, arg,
                   max_size_mb, current_chunk, current_size, start_date, k,
                   files, log, unitVars>>

\* f"conversations_{chunk['start_date']}_to_{chunk['end_date']}.csv", line 208
FileName(chunk) == <<chunk.start_date, chunk.end_date>>

\* df.to_csv(filepath, index=False), line 212: creates or replaces the file
ToCsv(fs, name, rows) ==
    [n \in DOMAIN fs \cup {name} |-> IF n = name THEN rows ELSE fs[n]]

\* create_csv_chunks, lines 207-215: one iteration of the save loop
SaveChunk ==
    /\ pc = "save"
    /\ w <= Len(chunks)
    /\ files' = ToCsv(files, FileName(chunks[w]), chunks[w].data)
    /\ log' = Logged("info", "Created")
    /\ w' = w + 1
    /\ UNCHANGED <<pc, envVars, mapping_written, parseVars, conversations, arg,
                   max_size_mb, chunks, current_chunk, current_size,
                   start_date, k, unitVars>>

\* create_csv_chunks returns
SaveDone ==
    /\ pc = "save"
    /\ w > Len(chunks)
    /\ pc' = "csv_returned"
    /\ UNCHANGED <<envVars, mapping_written, parseVars, conversations,
                   chunkVars, log, unitVars>>

-----------------------------------------------------------------------------
(* The whole run *)

Next ==
    \/ Run
    \/ LoadProjectsInfo
    \/ ParseOpen
    \/ ParseStep
    \/ ParseReturn
    \/ RunCheck
    \/ CreateCsvChunks
    \/ ScanStep
    \/ FinalChunk
    \/ SaveChunk
    \/ SaveDone
    \/ RunSummary

Spec == Init /\ [][Next]_vars

-----------------------------------------------------------------------------
(* create_csv_chunks called on its own, on any list and budget *)

ChunkDates == {EmptyStr} \cup {DateStr(d) : d \in 1..MaxDay}
Budgets    == {0, DefaultMaxSizeMb}

\* a summary of a conversation with one empty message
Summary(date, title) ==
    [conversation_id       |-> 0,
     date                  |-> date,
     title                 |-> title,
     message_count         |-> 1,
     user_message_count    |-> 1,
     claude_response_count |-> 0,
     total_characters      |-> 0,
     conversation_preview  |-> Preview(Truncate(CompositeLen(<<Msg("human", 0)>>))),
     conversation_text     |-> Truncate(CompositeLen(<<Msg("human", 0)>>))]

\* title lengths: "Untitled", one that makes the record exactly 9 MB, 19 MB
BigTitle  == 9 * MBytes - StrLen(Summary(EmptyStr, 0))
TitleLens == {UntitledLen, BigTitle, 19 * MBytes}

Summaries == {Summary(d, t) : d \in ChunkDates, t \in TitleLens}

WithConvIds(s) == [j \in 1..Len(s) |-> [s[j] EXCEPT !.conversation_id = j]]

InitChunks ==
    /\ pc = "create_csv_chunks"
    /\ projects_file = "missing"
    /\ conversations_file = "missing"
    /\ source = <<>>
    /\ mapping_written = FALSE
    /\ IdleParse
    /\ arg \in {WithConvIds(s) : s \in SeqsUpTo(Summaries, MaxConvs)}
    /\ conversations = arg
    /\ max_size_mb \in Budgets
    /\ IdleChunks
    /\ log = <<>>
    /\ raw = NonObject
    /\ result = NoneRec

NextChunks ==
    \/ CreateCsvChunks
    \/ ScanStep
    \/ FinalChunk
    \/ SaveChunk
    \/ SaveDone

SpecChunks == InitChunks /\ [][NextChunks]_vars

-----------------------------------------------------------------------------
(* process_single_conversation called on its own *)

TextLens == {0, PreviewCap - UserHeaderLen - ClaudeHeaderLen,
             TextCap - UserHeaderLen - ClaudeHeaderLen,
             TextCap - UserHeaderLen - ClaudeHeaderLen + 1}

Messages == {Msg(s, n) : s \in Senders, n \in TextLens} \cup {BadMessage}

ChatValues == {NoChat, NotAList} \cup {Chat(m) : m \in SeqsUpTo(Messages, MaxMsgs)}

InitExtract ==
    /\ pc = "process_single_conversation"
    /\ projects_file = "missing"
    /\ conversations_file = "missing"
    /\ source = <<>>
    /\ mapping_written = FALSE
    /\ IdleParse
    /\ conversations = <<>>
    /\ arg = <<>>
    /\ max_size_mb = DefaultMaxSizeMb
    /\ IdleChunks
    /\ log = <<>>
    /\ raw \in {[Dict(Iso(MaxDay, 0, 0, "T"), cm) EXCEPT !.uuid = 1] : cm \in ChatValues}
    /\ result = NoneRec

\* process_single_conversation, lines 104-156
Extract ==
    /\ pc = "process_single_conversation"
    /\ result' = process_single_conversation(raw)
    /\ log' = IF ~NoMessages(raw) /\ ExtractionRaises(raw)
              THEN Logged("warning", "Error processing conversation")
              ELSE log
    /\ pc' = "extracted"
    /\ UNCHANGED <<envVars, mapping_written, parseVars, conversations,
                   chunkVars, raw>>

NextExtract == Extract

SpecExtract == InitExtract /\ [][NextExtract]_vars


-----------------------------------------------------------------------------
(* Properties of create_csv_chunks (checked under SpecChunks) *)

Returned == pc \in {"save", "csv_returned"}

Budget == max_size_mb * MBytes

RECURSIVE Concat(_)
Concat(cs) == IF cs = <<>> THEN <<>> ELSE Head(cs).data \o Concat(Tail(cs))

ChunkBytes(chunk) == SumLen([j \in 1..Len(chunk.data) |-> StrLen(chunk.data[j])])

\* C1: the chunks, concatenated in order, are the input list stably sorted
\* by date: same length, every element is the input record of its id, dates
\* ascend and ties keep the input order (so every record occurs exactly
\* once); no chunk is empty, and an empty input gives no chunk.
C1_RoundTrip ==
    Returned =>
        LET out == Concat(chunks)
        IN  /\ Len(out) = Len(arg)
            /\ \A j \in 1..Len(out) :
                  /\ out[j].conversation_id \in 1..Len(arg)
                  /\ out[j] = arg[out[j].conversation_id]
            /\ \A a, b \in 1..Len(out) :
                  a < b => \/ out[a].date < out[b].date
                           \/ /\ out[a].date = out[b].date
                              /\ out[a].conversation_id < out[b].conversation_id
            /\ \A c \in 1..Len(chunks) : chunks[c].data # <<>>

C1_Witness ==
    /\ pc = "csv_returned"
    /\ Len(chunks) >= 2
    /\ \E a, b \in 1..Len(arg) : a < b /\ arg[a].date > arg[b].date
    /\ \E a, b \in 1..Len(arg) : a < b /\ arg[a].date = arg[b].date

\* C2: every chunk is within the budget or holds exactly one record, and a
\* record that is larger than the budget on its own is the only record of
\* some chunk.
C2_BudgetOrSingleton ==
    Returned =>
        /\ \A c \in 1..Len(chunks) :
              ChunkBytes(chunks[c]) <= Budget \/ Len(chunks[c].data) = 1
        /\ \A j \in 1..Len(arg) :
              StrLen(arg[j]) > Budget =>
                 \E c \in 1..Len(chunks) : chunks[c].data = <<arg[j]>>

C2_Witness ==
    /\ pc = "csv_returned"
    /\ max_size_mb = DefaultMaxSizeMb
    /\ Len(chunks) = 3
    /\ Len(chunks[2].data) = 1
    /\ ChunkBytes(chunks[2]) > Budget
    /\ ChunkBytes(chunks[1]) <= Budget

\* C5: after the call there are as many files as chunks and every input
\* record is a row of exactly one file.
C5_OneFilePerChunk ==
    pc = "csv_returned" =>
        /\ Cardinality(DOMAIN files) = Len(chunks)
        /\ \A j \in 1..Len(arg) :
              Cardinality({n \in DOMAIN files :
                             \E r \in 1..Len(files[n]) : files[n][r] = arg[j]}) = 1

\* C6: the recorded start_date of a chunk is the date of its first record
\* and the recorded end_date the date of its last record.
C6_StartEndDates ==
    Returned =>
        \A c \in 1..Len(chunks) :
            /\ chunks[c].start_date = chunks[c].data[1].date
            /\ chunks[c].end_date = Last(chunks[c].data).date

\* C7: start_date <= end_date within each chunk, and the end_date of a
\* chunk is not later than the start_date of the next one.
C7_RangesOrdered ==
    Returned =>
        /\ \A c \in 1..Len(chunks) : chunks[c].start_date <= chunks[c].end_date
        /\ \A c \in 1..(Len(chunks) - 1) :
              /\ chunks[c].end_date <= chunks[c + 1].start_date
              /\ chunks[c].start_date <= chunks[c + 1].start_date

\* one iteration of the scan appends the record exactly when the running
\* chunk is empty or the record still fits; otherwise it closes the running
\* chunk and restarts chunk and accumulator from the record
C10_Step ==
    (pc = "scan" /\ k <= Len(conversations)) =>
        LET conv == conversations[k]
        IN  IF current_chunk = <<>> \/ current_size + StrLen(conv) <= Budget
            THEN /\ current_chunk' = Append(current_chunk, conv)
                 /\ current_size' = current_size + StrLen(conv)
                 /\ chunks' = chunks
            ELSE /\ Len(chunks') = Len(chunks) + 1
                 /\ SubSeq(chunks', 1, Len(chunks)) = chunks
                 /\ Last(chunks').data = current_chunk
                 /\ current_chunk' = <<conv>>
                 /\ current_size' = StrLen(conv)

\* consecutive chunks: the earlier one plus the first record of the later
\* one is strictly over the budget; the accumulator is the running chunk's size
C10_Maximal ==
    /\ \A c \in 1..(Len(chunks) - 1) :
          ChunkBytes(chunks[c]) + StrLen(chunks[c + 1].data[1]) > Budget
    /\ pc = "scan" =>
          /\ current_size = SumLen([j \in 1..Len(current_chunk) |->
                                      StrLen(current_chunk[j])])
          /\ (chunks # <<>> /\ current_chunk # <<>>) =>
                ChunkBytes(Last(chunks)) + StrLen(current_chunk[1]) > Budget

\* C10: the partition is greedy and maximal in a single pass (C10_Step at
\* every iteration, C10_Maximal in every state).
C10_Greedy == [][C10_Step]_vars /\ []C10_Maximal

C10_Witness ==
    /\ pc = "csv_returned"
    /\ max_size_mb = DefaultMaxSizeMb
    /\ Len(chunks) = 2
    /\ Len(chunks[1].data) = 2
    /\ ChunkBytes(chunks[1]) = Budget

-----------------------------------------------------------------------------
(* Properties of parse_conversations_file and run (checked under Spec) *)

\* the wall-clock reading of an ISO created_at, as written in the source
WallClock(created_at) == [day |-> created_at.day, tod |-> created_at.tod]

\* an element that is well-formed, in the window and has usable messages
Sound(el) ==
    /\ el.kind = "dict"
    /\ el.created_at.form = "iso"
    /\ NotBefore(WallClock(el.created_at), cutoff_date)
    /\ el.chat_messages.form = "list"
    /\ el.chat_messages.items # <<>>
    /\ \A j \in 1..Len(el.chat_messages.items) : el.chat_messages.items[j].form = "dict"

Ids(recs) == [j \in 1..Len(recs) |-> recs[j].conversation_id]

SoundIds ==
    LET sound == SelectSeq(source, Sound)
    IN  [j \in 1..Len(sound) |-> sound[j].uuid]

\* C3: whatever malformed elements the source holds, what
\* parse_conversations_file returns is the summaries of all the sound
\* elements, in source order.
C3_FaultsIsolated ==
    pc = "run_check" => Ids(conversations) = SoundIds

\* C4: every accepted record comes from an element whose zone-stripped
\* timestamp is >= the cutoff and carries a date not before the cutoff's
\* day; while the loop runs, every examined sound element (a timestamp equal
\* to the cutoff included) has been accepted; so do the rows of every file.
C4_CutoffInclusive ==
    /\ \A j \in 1..Len(filtered_conversations) :
          LET r == filtered_conversations[j]
          IN  /\ DayOf(r.date) >= cutoff_date.day
              /\ NotBefore(WallClock(source[r.conversation_id].created_at), cutoff_date)
    /\ pc = "parse_loop" =>
          \A j \in 1..(i - 1) :
              Sound(source[j]) =>
                 \E r \in 1..Len(filtered_conversations) :
                     filtered_conversations[r].conversation_id = j
    /\ \A n \in DOMAIN files : \A r \in 1..Len(files[n]) :
          /\ DayOf(files[n][r].date) >= cutoff_date.day
          /\ NotBefore(WallClock(source[files[n][r].conversation_id].created_at),
                       cutoff_date)

C4_Witness ==
    /\ pc = "done"
    /\ \E n \in DOMAIN files : \E r \in 1..Len(files[n]) :
          WallClock(source[files[n][r].conversation_id].created_at) = cutoff_date
    /\ \E j \in 1..Len(source) :
          /\ source[j].created_at.form = "iso"
          /\ source[j].created_at.day = cutoff_date.day
          /\ source[j].created_at.tod < cutoff_date.tod
          /\ \A n \in DOMAIN files : \A r \in 1..Len(files[n]) :
                files[n][r].conversation_id # j

InCreateCsvChunks == pc \in {"create_csv_chunks", "scan", "save", "csv_returned"}

ParseWasCalled ==
    \/ HasLog("error", "Conversations file not found")
    \/ HasLog("info", "Processing conversations file")

\* C8: with zero parsed records run logs the error and ends without calling
\* create_csv_chunks and without touching a file; whatever the state of
\* projects.json, parse_conversations_file is called.
C8_EmptyResult ==
    /\ InCreateCsvChunks => conversations # <<>>
    /\ (pc = "done" /\ conversations = <<>>) =>
          /\ HasLog("error", "No conversations found to process")
          /\ ~HasLog("warning", "No conversations to process")
          /\ ~HasLog("info", "Created")
          /\ files = EmptyFiles
          /\ chunks = <<>>
    /\ pc \notin {"run", "load_projects_info", "parse_conversations_file"} =>
          ParseWasCalled

C8_Witness ==
    /\ pc = "done"
    /\ conversations = <<>>
    /\ projects_file = "corrupt"
    /\ conversations_file = "ok"
    /\ Len(source) = MaxSrc
    /\ \A j \in 1..Len(source) : source[j].kind = "dict"

-----------------------------------------------------------------------------
(* Properties of process_single_conversation (checked under SpecExtract) *)

\* C9: a record without messages yields None; a record that yields a summary
\* has a transcript of at most 10000 + 14 characters that carries the marker
\* exactly when the composite text was longer than 10000, and a preview of
\* at most 500 + 3 characters that always carries the "..." suffix.
C9_Truncation ==
    pc = "extracted" =>
        /\ (raw.chat_messages.form = "absent"
            \/ (raw.chat_messages.form = "list" /\ raw.chat_messages.items = <<>>))
              => result = NoneRec
        /\ result # NoneRec =>
              LET composite == CompositeLen(raw.chat_messages.items)
              IN  /\ result.conversation_text.len <= TextCap + MarkerLen
                  /\ result.conversation_text.truncated <=> composite > TextCap
                  /\ ~result.conversation_text.truncated =>
                        result.conversation_text.len = composite
                  /\ result.conversation_preview.len <= PreviewCap + EllipsisLen
                  /\ result.conversation_preview.len >= EllipsisLen
                  /\ result.conversation_preview.ellipsis

C9_Witness ==
    /\ pc = "extracted"
    /\ result # NoneRec
    /\ result.conversation_text.truncated
    /\ result.conversation_text.len = TextCap + MarkerLen
    /\ result.conversation_preview.len = PreviewCap + EllipsisLen

=============================================================================
